---- MODULE Spec2Model ----
(***************************************************************************)
(* terminal-player: a producer thread decodes video frames, encodes them   *)
(* as ASCII text and sends them over an mpsc channel; the main thread      *)
(* (Player::play) receives them into a VecDeque, drives a Stop/Go          *)
(* ControlSignal behind a Mutex + Condvar, and renders at the frame rate.  *)
(* Source: src/src/lib.rs, src/src/main.rs.                                *)
(***************************************************************************)
EXTENDS Integers, Sequences, FiniteSets, TLC

(* ---------------------------------------------------------------------- *)
(* Program constants                                                      *)
(* ---------------------------------------------------------------------- *)

\* globals::FRAME_BACKLOG (lib.rs:14)
FRAME_BACKLOG == 30 * 10

\* the literal 10 of `c if c <= 10` (lib.rs:128)
LOW_WATERMARK == 10

\* globals::DEF_WIDTH (lib.rs:13)
DEF_WIDTH == 72

\* NULL_FRAME = "\0" (lib.rs:85). Text frames are modelled by their index in
\* the stream (1, 2, ...); the marker is the one value that is no frame.
NULL_FRAME == 0

\* globals::ROOT_DIR, globals::SAMPLE_DIR (lib.rs:11-12), as character
\* sequences
ROOT_DIR ==
    <<"/", "h", "o", "m", "e", "/", "k", "l", "a", "u", "d", "i", "u", "s",
      "z", "/", "D", "e", "s", "k", "t", "o", "p", "/", "P", "r", "o", "j",
      "e", "c", "t", "s", "/", "r", "u", "s", "t", "/", "t", "e", "r", "m",
      "i", "n", "a", "l", "_", "p", "l", "a", "y", "e", "r", "/">>

SAMPLE_DIR ==
    <<"s", "a", "m", "p", "l", "e", "s", "/">>

(* ---------------------------------------------------------------------- *)
(* usize: 64 bits on the build target. A value is kept as its four 16-bit  *)
(* limbs, most significant first, so that every value of the type, a       *)
(* wrapped difference included, is the number the program holds.           *)
(* ---------------------------------------------------------------------- *)
LIMB == 2^16

LIMBS == 4

\* the usize of a number below 2^31
Usize(n) == <<0, 0, n \div LIMB, n % LIMB>>

\* x < y, x <= y on usize
UsizeLt(x, y) ==
    \E i \in 1..LIMBS : x[i] < y[i] /\ \A j \in 1..(i - 1) : x[j] = y[j]

UsizeLe(x, y) == x = y \/ UsizeLt(x, y)

(* ---------------------------------------------------------------------- *)
(* Bounds of the model                                                    *)
(* ---------------------------------------------------------------------- *)

\* short streams hold 0..MaxFrames frames
MaxFrames == 3

\* the frame interval delta_t_ms ranges over 0..MaxDelta clock units
MaxDelta == 2

\* the long stream holds FRAME_BACKLOG + Overshoot frames
Overshoot == 2

\* the long session is taken up when its deque is FreeWindow frames short of
\* what makes the consumer assert Stop
FreeWindow == 3

\* the schedule that leads the long session there from construction lets no
\* time pass once MaxEarly frames are rendered
MaxEarly == 2

\* Config::from_args is given the program name and up to MaxArgs more tokens
MaxArgs == 3

LongStream == FRAME_BACKLOG + Overshoot

FillTo == FRAME_BACKLOG - LOW_WATERMARK - FreeWindow

\* that schedule has the producer pull only while fewer than MaxLead items
\* wait in the channel: room for all that is left of the stream, and the
\* marker
MaxLead == LongStream - FillTo + 2

Min(a, b) == IF a <= b THEN a ELSE b

(* ---------------------------------------------------------------------- *)
(* State                                                                  *)
(* ---------------------------------------------------------------------- *)
VARIABLES
    \* --- inputs of a session
    nframes,          \* frames the decoder yields before its stream ends
    ending,           \* "eos": Error::ReadExhausted; "error": another Err(e)
    sampling_rate,    \* Config.sampling_rate, read by ascii::rgb_to_ascii
    delta_t,          \* Config.delta_t_ms
    \* --- the producer thread (closure of spawn_frame_parser)
    ppc,              \* where the thread is
    decoded,          \* frames pulled from decode_raw_iter so far
    pframe,           \* the frame it holds
    sent,             \* history: every item passed to tx.send, in order
    \* --- the mpsc channel
    chan,             \* items sent and not yet received
    senders,          \* live Sender handles: Player.tx_data and the clone tx
    \* --- Arc<(Condvar, Mutex<ControlSignal>)>
    signal,           \* the ControlSignal in the mutex
    lock,             \* who holds the mutex
    poisoned,         \* a thread panicked while holding the mutex
    notified,         \* a notify_one reached the waiting producer
    \* --- the consumer (Player and the locals of Player::play)
    cpc,              \* where the main thread is
    is_playing,       \* Player.is_playing
    queue,            \* Player.queue, front first
    queue_size,       \* Player.queue_size
    stream_exhausted,
    reached_max_capacity,
    capacity,         \* the local `capacity` of the current iteration
    action,           \* the local `action` of the current iteration
    cframe,           \* the local `frame` popped for rendering
    rendered,         \* history: every frame passed to render_frame, in order
    notify_issued,    \* history: the last signal update called notify_one
    \* --- time
    elapsed,          \* prev.elapsed(), saturating at delta_t
    since_render,     \* time since the last render_frame call (or since play
                      \* began), saturating at delta_t
    \* --- the process
    exit_code,        \* "running", or the code the process ended with
    \* --- main's argument parsing
    args,             \* the argument list given to Config::from_args
    config            \* what Config::from_args made of it

session_vars == <<nframes, ending, sampling_rate, delta_t>>

producer_vars == <<ppc, decoded, pframe, sent>>

sync_vars == <<signal, lock, poisoned, notified>>

consumer_vars == <<cpc, is_playing, queue, queue_size, stream_exhausted,
                   reached_max_capacity, capacity, action, cframe, rendered,
                   notify_issued>>

time_vars == <<elapsed, since_render>>

arg_vars == <<args, config>>

vars == <<nframes, ending, sampling_rate, delta_t, ppc, decoded, pframe, sent,
          chan, senders, signal, lock, poisoned, notified, cpc, is_playing,
          queue, queue_size, stream_exhausted, reached_max_capacity, capacity,
          action, cframe, rendered, notify_issued, elapsed, since_render,
          exit_code, args, config>>

Running == exit_code = "running"

(* ---------------------------------------------------------------------- *)
(* VecDeque<String>: front first                                          *)
(* ---------------------------------------------------------------------- *)
PushFront(q, f) == <<f>> \o q

Back(q) == q[Len(q)]

PopBack(q) == SubSeq(q, 1, Len(q) - 1)

(* ---------------------------------------------------------------------- *)
(* ascii::rgb_to_ascii: `step_by(0)` panics, so a zero sampling stride     *)
(* makes the encoder panic on the first frame it is given.                 *)
(* ---------------------------------------------------------------------- *)
EncoderPanics == sampling_rate[2] * 3 = 0 \/ sampling_rate[1] = 0

(* ---------------------------------------------------------------------- *)
(* Player::play, the capacity policy                                       *)
(* ---------------------------------------------------------------------- *)
\* the borrow limb i of x - y takes from limb i - 1
RECURSIVE Borrow(_, _, _)
Borrow(x, y, i) ==
    IF i > LIMBS THEN 0
    ELSE IF x[i] - y[i] - Borrow(x, y, i + 1) < 0 THEN 1 ELSE 0

\* self.queue_size - self.queue.len() on usize, as a build without overflow
\* checks computes it: the difference modulo 2^64
WrappingSub(x, y) ==
    [i \in 1..LIMBS |-> (x[i] - y[i] - Borrow(x, y, i + 1) + LIMB) % LIMB]

\* the first arm of the match lost: the consumer never asks for Stop
DesiredAction_NeverStop(c, reached, size) == "Go"

\* Stop asked for only when nothing remains
DesiredAction_StopWhenFull(c, reached, size) ==
    IF c = Usize(0) THEN "Stop" ELSE "Go"

\* the `match capacity { ... }`
DesiredAction(c, reached, size) ==
    IF UsizeLe(c, Usize(LOW_WATERMARK)) THEN "Stop"
    ELSE IF reached /\ UsizeLe(Usize(size \div 2), c) THEN "Go"
    ELSE "Go"

\* the flag after the match: the second arm resets it
FlagAfterMatch(c, reached, size) ==
    IF UsizeLe(c, Usize(LOW_WATERMARK)) THEN reached
    ELSE IF reached /\ UsizeLe(Usize(size \div 2), c) THEN FALSE
    ELSE reached

(* ---------------------------------------------------------------------- *)
(* Config::from_args and its call in main. An argument is the sequence of  *)
(* its characters.                                                         *)
(* ---------------------------------------------------------------------- *)
\* globals::get_sample_mp4 (lib.rs:15-17):
\* format!("{}{}sample.mp4", ROOT_DIR, SAMPLE_DIR)
get_sample_mp4 ==
    ROOT_DIR \o SAMPLE_DIR \o <<"s", "a", "m", "p", "l", "e", ".", "m", "p", "4">>

\* str::starts_with
starts_with(s, prefix) ==
    Len(s) >= Len(prefix) /\ SubSeq(s, 1, Len(prefix)) = prefix

Digits == {"0", "1", "2", "3", "4", "5", "6", "7", "8", "9"}

DigitValue(c) ==
    CASE c = "0" -> 0 [] c = "1" -> 1 [] c = "2" -> 2 [] c = "3" -> 3
      [] c = "4" -> 4 [] c = "5" -> 5 [] c = "6" -> 6 [] c = "7" -> 7
      [] c = "8" -> 8 [] c = "9" -> 9

\* what limb i of 10 * x + d passes on to limb i - 1
RECURSIVE Carry(_, _, _)
Carry(x, d, i) ==
    IF i > LIMBS THEN d
    ELSE (10 * x[i] + Carry(x, d, i + 1)) \div LIMB

\* result.checked_mul(10) and then checked_add(d): None when 10 * x + d does
\* not fit a usize
Overflows(x, d) == Carry(x, d, 1) > 0

MulAdd(x, d) == [i \in 1..LIMBS |-> (10 * x[i] + Carry(x, d, i + 1)) % LIMB]

ParseResult(kind, value) == [kind |-> kind, value |-> value]

\* the digits of s from the left, acc the value of those read so far
RECURSIVE DecimalValue(_, _)
DecimalValue(s, acc) ==
    IF s = <<>> THEN ParseResult("Ok", acc)
    ELSE IF Overflows(acc, DigitValue(Head(s)))
         THEN ParseResult("Err", Usize(0))
         ELSE DecimalValue(Tail(s), MulAdd(acc, DigitValue(Head(s))))

\* str::parse::<usize>: an optional '+', then one digit or more, of a value
\* up to usize::MAX; anything else is an Err
ParseUsize(s) ==
    LET body == IF s # <<>> /\ s[1] = "+" THEN Tail(s) ELSE s IN
    IF body # <<>> /\ \A i \in 1..Len(body) : body[i] \in Digits
    THEN DecimalValue(body, Usize(0))
    ELSE ParseResult("Err", Usize(0))

\* the branch of the inner match of lib.rs:38-48 a flag takes
IsWidthFlag(arg) ==
    starts_with(arg, <<"-", "-", "w", "i", "d", "t", "h">>)
        \/ starts_with(arg, <<"-", "w">>)

ConfigResult(kind, file_name, width) ==
    [kind |-> kind, file_name |-> file_name, width_chars |-> width]

NoConfig == ConfigResult("none", <<>>, Usize(0))

\* lib.rs:36-66: the loop over args from index i on (1-based), then the
\* result. "Panic": args[i + 1] out of bounds, or the width does not parse;
\* "Exit1": exit(1) on an unknown flag.
RECURSIVE FromArgsLoop(_, _, _, _)
FromArgsLoop(a, i, width, file_name) ==
    IF i > Len(a)
    THEN IF Len(a) > 1
         THEN ConfigResult("Ok", file_name, width)
         ELSE ConfigResult("Err", <<>>, Usize(0))
    ELSE IF starts_with(a[i], <<"-">>)
         THEN IF IsWidthFlag(a[i])
              THEN IF i + 1 > Len(a) \/ ParseUsize(a[i + 1]).kind = "Err"
                   THEN ConfigResult("Panic", <<>>, Usize(0))
                   ELSE FromArgsLoop(a, i + 1, ParseUsize(a[i + 1]).value,
                                     file_name)
              ELSE ConfigResult("Exit1", <<>>, Usize(0))
         ELSE FromArgsLoop(a, i + 1, width, a[i])

\* Config::from_args (lib.rs:32-66)
from_args(a) == FromArgsLoop(a, 1, Usize(DEF_WIDTH), get_sample_mp4)

\* the arguments main is started with: the program name, then up to MaxArgs
\* of these
ProgramName == <<"t", "p">>

ArgTokens ==
    { <<"-", "w">>,
      <<"-", "-", "w", "i", "d", "t", "h">>,
      <<"8", "0">>,
      <<"1", "8", "4", "4", "6", "7", "4", "4", "0", "7", "3", "7", "0", "9",
        "5", "5", "1", "6", "1", "6">>,
      <<"a", ".", "m", "p", "4">>,
      <<"-", "x">> }

ArgLists ==
    UNION { { <<ProgramName>> \o t : t \in [1..n -> ArgTokens] } : n \in 0..MaxArgs }

(* ---------------------------------------------------------------------- *)
(* Construction: Player::new, before play() is called                      *)
(* ---------------------------------------------------------------------- *)
Constructed ==
    /\ ppc = "unspawned"
    /\ decoded = 0
    /\ pframe = NULL_FRAME
    /\ sent = <<>>
    /\ chan = <<>>
    /\ senders = {"player"}
    /\ signal = "Go"
    /\ lock = "free"
    /\ poisoned = FALSE
    /\ notified = FALSE
    /\ cpc = "start"
    /\ is_playing = FALSE
    /\ queue = <<>>
    /\ queue_size = FRAME_BACKLOG
    /\ stream_exhausted = FALSE
    /\ reached_max_capacity = FALSE
    /\ capacity = Usize(FRAME_BACKLOG)
    /\ action = "Go"
    /\ cframe = NULL_FRAME
    /\ rendered = <<>>
    /\ notify_issued = FALSE
    /\ elapsed = 0
    /\ since_render = 0
    /\ exit_code = "running"

Init ==
    /\ \/ /\ nframes \in 0..MaxFrames
          /\ ending \in {"eos", "error"}
          /\ sampling_rate \in {<<1, 1>>, <<1, 0>>}
          /\ delta_t \in 0..MaxDelta
       \/ /\ nframes = LongStream
          /\ ending = "eos"
          /\ sampling_rate = <<1, 1>>
          /\ delta_t = 1
    /\ Constructed
    /\ args = <<>>
    /\ config = NoConfig

(* ---------------------------------------------------------------------- *)
(* Player::play                                                            *)
(* ---------------------------------------------------------------------- *)
\* lib.rs:113-122: is_playing, prev = Instant::now(), the shared signal, the
\* producer thread is spawned
Play ==
    /\ Running
    /\ cpc = "start"
    /\ is_playing' = TRUE
    /\ notify_issued' = FALSE
    /\ elapsed' = 0
    /\ since_render' = 0
    /\ signal' = "Go"
    /\ ppc' = "decode"
    /\ senders' = senders \cup {"producer"}
    /\ stream_exhausted' = FALSE
    /\ reached_max_capacity' = FALSE
    /\ cpc' = "eval"
    /\ UNCHANGED <<session_vars, decoded, pframe, sent, chan, lock, poisoned,
                   notified, queue, queue_size, capacity, action, cframe,
                   rendered, exit_code, arg_vars>>

\* lib.rs:125-134: capacity and the desired action. An underflow of the
\* subtraction panics in a build with overflow checks and wraps in one without.
ConsumerEval ==
    /\ Running
    /\ cpc = "eval"
    /\ \E overflow_checks \in BOOLEAN :
         IF Len(queue) > queue_size /\ overflow_checks
         THEN /\ cpc' = "panicked"
              /\ exit_code' = "101"
              /\ UNCHANGED <<capacity, action, reached_max_capacity>>
         ELSE /\ capacity' = WrappingSub(Usize(queue_size), Usize(Len(queue)))
              /\ action' = DesiredAction(capacity', reached_max_capacity,
                                         queue_size)
              /\ reached_max_capacity' =
                     FlagAfterMatch(capacity', reached_max_capacity, queue_size)
              /\ cpc' = "lock"
              /\ UNCHANGED exit_code
    /\ UNCHANGED <<session_vars, producer_vars, chan, senders, sync_vars,
                   is_playing, notify_issued, queue, queue_size,
                   stream_exhausted, cframe,
                   rendered, time_vars, arg_vars>>

\* lib.rs:136: mtx.lock().unwrap() blocks while the producer holds the mutex
\* and panics when the mutex is poisoned
ConsumerLock ==
    /\ Running
    /\ cpc = "lock"
    /\ lock = "free"
    /\ IF poisoned
       THEN /\ cpc' = "panicked"
            /\ exit_code' = "101"
            /\ UNCHANGED lock
       ELSE /\ cpc' = "update"
            /\ lock' = "consumer"
            /\ UNCHANGED exit_code
    /\ UNCHANGED <<session_vars, producer_vars, chan, senders, signal,
                   poisoned, notified, is_playing, notify_issued, queue, queue_size,
                   stream_exhausted, reached_max_capacity, capacity, action,
                   cframe, rendered, time_vars, arg_vars>>

\* the write and the notification made in every iteration
MustSignal_Always(act, sig) == TRUE

\* the second operand lost: the signal is written only to assert Stop
MustSignal_OnlyStop(act, sig) == act = "Stop"

\* the signal written only when Stop is newly asserted
MustSignal_OnlyNewStop(act, sig) == act = "Stop" /\ sig = "Go"

\* whether the consumer writes the signal and notifies (lib.rs:137)
MustSignal(act, sig) == act = "Stop" \/ sig = "Stop"

\* lib.rs:137-142: the write, notify_one, drop(signal)
ConsumerUpdate ==
    /\ Running
    /\ cpc = "update"
    /\ lock = "consumer"
    /\ IF MustSignal(action, signal)
       THEN /\ signal' = action
            /\ notified' = (notified \/ ppc = "wait")
            /\ notify_issued' = TRUE
       ELSE /\ notify_issued' = FALSE
            /\ UNCHANGED <<signal, notified>>
    /\ lock' = "free"
    /\ cpc' = "recv"
    /\ UNCHANGED <<session_vars, producer_vars, chan, senders, poisoned,
                   is_playing, queue, queue_size, stream_exhausted,
                   reached_max_capacity, capacity, action, cframe, rendered,
                   time_vars, exit_code, arg_vars>>

\* the test of stream_exhausted lost: recv() is called after the marker
WillReceive_IgnoresExhausted(exhausted, act) == act # "Stop"

\* the test of the action lost: recv() is called in a Stop iteration too
WillReceive_IgnoresStop(exhausted, act) == ~exhausted

\* whether the iteration calls rx_data.recv() (lib.rs:144)
WillReceive(exhausted, act) == ~exhausted /\ act # "Stop"

\* the deque after a text frame was received (lib.rs:150)
Enqueue(q, f) == PushFront(q, f)

\* lib.rs:144-156: recv() returns an item when one is queued, Err when the
\* channel is empty and every Sender is gone, and blocks otherwise
ConsumerRecv ==
    /\ Running
    /\ cpc = "recv"
    /\ IF WillReceive(stream_exhausted, action)
       THEN /\ chan # <<>> \/ senders = {}
            /\ IF chan # <<>>
               THEN /\ chan' = Tail(chan)
                    /\ IF Head(chan) = NULL_FRAME
                       THEN /\ stream_exhausted' = TRUE
                            /\ UNCHANGED queue
                       ELSE /\ queue' = Enqueue(queue, Head(chan))
                            /\ UNCHANGED stream_exhausted
               ELSE /\ stream_exhausted' = TRUE
                    /\ UNCHANGED <<chan, queue>>
       ELSE UNCHANGED <<chan, queue, stream_exhausted>>
    /\ cpc' = "pace"
    /\ UNCHANGED <<session_vars, producer_vars, senders, sync_vars, is_playing,
                   notify_issued,
                   queue_size, reached_max_capacity, capacity, action, cframe,
                   rendered, time_vars, exit_code, arg_vars>>

\* the comparison turned round
should_skip_rendering_Inverted(el, dt) == el > dt

\* Player::should_skip_rendering (lib.rs:220-223)
should_skip_rendering(el, dt) == el < dt

\* the frame taken from the front, where push_front has just put the newest
NextFrame_Front(q) == q[1]

\* the frame the consumer takes from the deque to render (lib.rs:162)
NextFrame(q) == Back(q)

\* the deque after that frame was taken
AfterPop(q) == PopBack(q)

\* the loop left as soon as the stream is exhausted, frames buffered or not
ConsumerPace_BreaksWhenExhausted ==
    /\ Running
    /\ cpc = "pace"
    /\ IF should_skip_rendering(elapsed, delta_t)
       THEN /\ cpc' = "eval"
            /\ UNCHANGED <<queue, cframe, exit_code>>
       ELSE IF stream_exhausted
            THEN /\ cpc' = "done"
                 /\ exit_code' = "0"
                 /\ UNCHANGED <<queue, cframe>>
            ELSE IF queue = <<>>
                 THEN /\ cpc' = "eval"
                      /\ UNCHANGED <<queue, cframe, exit_code>>
                 ELSE /\ cframe' = NextFrame(queue)
                      /\ queue' = AfterPop(queue)
                      /\ cpc' = "render"
                      /\ UNCHANGED exit_code
    /\ UNCHANGED <<session_vars, producer_vars, chan, senders, sync_vars,
                   is_playing, notify_issued, queue_size, stream_exhausted,
                   reached_max_capacity, capacity, action, rendered, time_vars,
                   arg_vars>>

\* lib.rs:158-171: the pacing check, then pop_back; play() returns on an empty
\* deque once the stream is exhausted, and main returns after it
ConsumerPace ==
    /\ Running
    /\ cpc = "pace"
    /\ IF should_skip_rendering(elapsed, delta_t)
       THEN /\ cpc' = "eval"
            /\ UNCHANGED <<queue, cframe, exit_code>>
       ELSE IF queue = <<>>
            THEN /\ IF stream_exhausted
                    THEN cpc' = "done" /\ exit_code' = "0"
                    ELSE cpc' = "eval" /\ UNCHANGED exit_code
                 /\ UNCHANGED <<queue, cframe>>
            ELSE /\ cframe' = NextFrame(queue)
                 /\ queue' = AfterPop(queue)
                 /\ cpc' = "render"
                 /\ UNCHANGED exit_code
    /\ UNCHANGED <<session_vars, producer_vars, chan, senders, sync_vars,
                   is_playing, notify_issued, queue_size, stream_exhausted,
                   reached_max_capacity, capacity, action, rendered, time_vars,
                   arg_vars>>

\* lib.rs:173: render_frame(&frame)
ConsumerRender ==
    /\ Running
    /\ cpc = "render"
    /\ rendered' = Append(rendered, cframe)
    /\ since_render' = 0
    /\ cpc' = "stamp"
    /\ UNCHANGED <<session_vars, producer_vars, chan, senders, sync_vars,
                   is_playing, notify_issued, queue, queue_size, stream_exhausted,
                   reached_max_capacity, capacity, action, cframe, elapsed,
                   exit_code, arg_vars>>

\* the flag after a render (lib.rs:177-179)
FlagAfterRender(reached, len, size) == reached \/ len = size

\* lib.rs:174-179: prev = Instant::now(), then the flag
ConsumerStamp ==
    /\ Running
    /\ cpc = "stamp"
    /\ elapsed' = 0
    /\ reached_max_capacity' =
           FlagAfterRender(reached_max_capacity, Len(queue), queue_size)
    /\ cpc' = "eval"
    /\ UNCHANGED <<session_vars, producer_vars, chan, senders, sync_vars,
                   is_playing, notify_issued, queue, queue_size,
                   stream_exhausted, capacity,
                   action, cframe, rendered, since_render, exit_code, arg_vars>>

(* ---------------------------------------------------------------------- *)
(* Player::spawn_frame_parser, the producer thread                         *)
(* ---------------------------------------------------------------------- *)
\* an empty String sent in place of NULL_FRAME
EndItem_NotTheMarker == NULL_FRAME - 1

\* what the producer sends on Error::ReadExhausted (lib.rs:193)
EndItem == NULL_FRAME

\* every Err(_) taken for the end of the stream
DecodeOutcome_ErrorAsEnd(k, n, end) ==
    IF k < n THEN "frame" ELSE "exhausted"

\* lib.rs:190-201: the arm of `match frame` the k-th pull takes on a stream of
\* n frames that ends as `end` says
DecodeOutcome(k, n, end) ==
    IF k < n THEN "frame"
    ELSE IF end = "eos" THEN "exhausted"
    ELSE "fatal"

\* lib.rs:189-201: the next item of decode_raw_iter. A frame is kept; on
\* ReadExhausted the marker is sent and the loop is left; on another error
\* the process exits with code 2.
ProducerDecode ==
    /\ Running
    /\ ppc = "decode"
    /\ LET outcome == DecodeOutcome(decoded, nframes, ending) IN
       IF outcome = "frame"
       THEN /\ decoded' = decoded + 1
            /\ pframe' = decoded + 1
            /\ ppc' = "lock"
            /\ UNCHANGED <<sent, chan, exit_code>>
       ELSE IF outcome = "exhausted"
            THEN /\ chan' = Append(chan, EndItem)
                 /\ sent' = Append(sent, EndItem)
                 /\ ppc' = "exiting"
                 /\ UNCHANGED <<decoded, pframe, exit_code>>
            ELSE /\ exit_code' = "2"
                 /\ ppc' = "exited"
                 /\ UNCHANGED <<decoded, pframe, sent, chan>>
    /\ UNCHANGED <<session_vars, senders, sync_vars, consumer_vars, time_vars,
                   arg_vars>>

\* lib.rs:204: mutex.lock(), and the re-acquisition when condvar.wait returns
ProducerLock ==
    /\ Running
    /\ ppc = "lock"
    /\ lock = "free"
    /\ lock' = "producer"
    /\ ppc' = "check"
    /\ UNCHANGED <<session_vars, decoded, pframe, sent, chan, senders, signal,
                   poisoned, notified, consumer_vars, time_vars, exit_code,
                   arg_vars>>

\* the while loop lost: the producer never waits
MustWait_Never(sig) == FALSE

\* whether the producer waits (lib.rs:205)
MustWait(sig) == sig = "Stop"

\* lib.rs:205-206: the test of the while loop; condvar.wait releases the mutex
ProducerCheck ==
    /\ Running
    /\ ppc = "check"
    /\ lock = "producer"
    /\ IF MustWait(signal)
       THEN /\ ppc' = "wait"
            /\ lock' = "free"
            /\ notified' = FALSE
       ELSE /\ ppc' = "encode"
            /\ UNCHANGED <<lock, notified>>
    /\ UNCHANGED <<session_vars, decoded, pframe, sent, chan, senders, signal,
                   poisoned, consumer_vars, time_vars, exit_code, arg_vars>>

\* lib.rs:206: condvar.wait returns after a notify_one
ProducerWake ==
    /\ Running
    /\ ppc = "wait"
    /\ notified
    /\ notified' = FALSE
    /\ ppc' = "lock"
    /\ UNCHANGED <<session_vars, decoded, pframe, sent, chan, senders, signal,
                   lock, poisoned, consumer_vars, time_vars, exit_code,
                   arg_vars>>

\* lib.rs:206: condvar.wait may also return without a notification
SpuriousWake ==
    /\ Running
    /\ ppc = "wait"
    /\ ~notified
    /\ ppc' = "lock"
    /\ UNCHANGED <<session_vars, decoded, pframe, sent, chan, senders,
                   sync_vars, consumer_vars, time_vars, exit_code, arg_vars>>

\* lib.rs:208-210: rgb_to_ascii and tx.send, with the mutex guard still held;
\* the guard is dropped at the end of the loop body. A panic of the encoder
\* unwinds the thread: the guard's drop poisons the mutex, tx is dropped.
ProducerEncodeSend ==
    /\ Running
    /\ ppc = "encode"
    /\ lock = "producer"
    /\ IF EncoderPanics
       THEN /\ ppc' = "panicked"
            /\ poisoned' = TRUE
            /\ senders' = senders \ {"producer"}
            /\ UNCHANGED <<chan, sent>>
       ELSE /\ chan' = Append(chan, pframe)
            /\ sent' = Append(sent, pframe)
            /\ ppc' = "decode"
            /\ UNCHANGED <<poisoned, senders>>
    /\ lock' = "free"
    /\ UNCHANGED <<session_vars, decoded, pframe, signal, notified,
                   consumer_vars, time_vars, exit_code, arg_vars>>

\* lib.rs:194, 211: after `break` the closure returns and drops tx
ProducerExit ==
    /\ Running
    /\ ppc = "exiting"
    /\ ppc' = "done"
    /\ senders' = senders \ {"producer"}
    /\ UNCHANGED <<session_vars, decoded, pframe, sent, chan, sync_vars,
                   consumer_vars, time_vars, exit_code, arg_vars>>

(* ---------------------------------------------------------------------- *)
(* The clock: one unit of time passes, at any point of either thread. Only *)
(* prev.elapsed() < delta_t reads the time, so both durations are kept up   *)
(* to delta_t, and a unit that changes neither is not a step.              *)
(* ---------------------------------------------------------------------- *)
Tick ==
    /\ Running
    /\ cpc \notin {"start"}
    /\ elapsed < delta_t \/ since_render < delta_t
    /\ elapsed' = Min(elapsed + 1, delta_t)
    /\ since_render' = Min(since_render + 1, delta_t)
    /\ UNCHANGED <<session_vars, producer_vars, chan, senders, sync_vars,
                   consumer_vars, exit_code, arg_vars>>

\* main.rs:6-10: Config::from_args(&args); an Err ends the process with
\* exit code 1, as the exit(1) in from_args does; a panic ends it with 101
MainFromArgs ==
    /\ Running
    /\ config.kind = "none"
    /\ args # <<>>
    /\ config' = from_args(args)
    /\ exit_code' = CASE config'.kind \in {"Err", "Exit1"} -> "1"
                      [] config'.kind = "Panic" -> "101"
                      [] OTHER -> exit_code
    /\ UNCHANGED <<session_vars, producer_vars, chan, senders, sync_vars,
                   consumer_vars, time_vars, args>>

InitArgs ==
    /\ args \in ArgLists
    /\ config = NoConfig
    /\ nframes = 0
    /\ ending = "eos"
    /\ sampling_rate = <<1, 1>>
    /\ delta_t = 0
    /\ Constructed

NextArgs == MainFromArgs

SpecArgs == InitArgs /\ [][NextArgs]_vars

(* ---------------------------------------------------------------------- *)
(* The steps of the program: those of the producer thread (a spurious      *)
(* wake-up of condvar.wait among them), those of the main thread, and the  *)
(* passing of time.                                                        *)
(* ---------------------------------------------------------------------- *)
ProducerStep ==
    \/ ProducerDecode
    \/ ProducerLock
    \/ ProducerCheck
    \/ ProducerWake
    \/ SpuriousWake
    \/ ProducerEncodeSend
    \/ ProducerExit

ConsumerStep ==
    \/ Play
    \/ ConsumerEval
    \/ ConsumerLock
    \/ ConsumerUpdate
    \/ ConsumerRecv
    \/ ConsumerPace
    \/ ConsumerRender
    \/ ConsumerStamp

Next == ProducerStep \/ ConsumerStep \/ Tick

\* the steps by which the producer thread advances of its own accord: all
\* but the spurious wake-up, which no progress may rest on
ProducerProgress ==
    \/ ProducerDecode
    \/ ProducerLock
    \/ ProducerCheck
    \/ ProducerWake
    \/ ProducerEncodeSend
    \/ ProducerExit

(* ---------------------------------------------------------------------- *)
(* The long session, taken up where its deque first holds FillTo frames.   *)
(* The consumer asks for Stop only with FRAME_BACKLOG - LOW_WATERMARK      *)
(* frames in the deque. Until it does, and while the stream lasts, every   *)
(* iteration receives one frame and renders at most one, so the deque does *)
(* not shrink. Every behaviour that comes to Stop therefore passes, once,  *)
(* through the state right after the recv() that brings the deque to       *)
(* FillTo frames; a behaviour that does not get there always has more     *)
(* than LOW_WATERMARK + FreeWindow remaining. Buffered is the set of these *)
(* states: k frames rendered so far, s frames sent, the producer anywhere  *)
(* in its loop body or past it, the signal never yet written, the clock    *)
(* anywhere within the frame interval.                                     *)
(* ---------------------------------------------------------------------- *)
\* the frames i..j of the stream, oldest first
Frames(i, j) == [x \in 1..(j - i + 1) |-> i + x - 1]

\* the deque that holds the frames i..j: the newest at the front
Deque(i, j) == [x \in 1..(j - i + 1) |-> j - x + 1]

Buffered ==
    /\ nframes = LongStream
    /\ ending = "eos"
    /\ sampling_rate = <<1, 1>>
    /\ delta_t = 1
    /\ args = <<>>
    /\ config = NoConfig
    /\ \E k \in 0..(LongStream - FillTo) :
       \E s \in (FillTo + k)..LongStream :
         /\ rendered = Frames(1, k)
         /\ cframe = (IF k = 0 THEN NULL_FRAME ELSE k)
         /\ queue = Deque(k + 1, k + FillTo)
         /\ \/ /\ ppc = "decode"
               /\ decoded = s
               /\ pframe = s
               /\ lock = "free"
               /\ sent = Frames(1, s)
               /\ chan = Frames(k + FillTo + 1, s)
               /\ senders = {"player", "producer"}
            \/ /\ s < LongStream
               /\ \/ ppc = "lock" /\ lock = "free"
                  \/ ppc \in {"check", "encode"} /\ lock = "producer"
               /\ decoded = s + 1
               /\ pframe = s + 1
               /\ sent = Frames(1, s)
               /\ chan = Frames(k + FillTo + 1, s)
               /\ senders = {"player", "producer"}
            \/ /\ s = LongStream
               /\ \/ ppc = "exiting" /\ senders = {"player", "producer"}
                  \/ ppc = "done" /\ senders = {"player"}
               /\ decoded = s
               /\ pframe = s
               /\ lock = "free"
               /\ sent = Append(Frames(1, s), NULL_FRAME)
               /\ chan = Append(Frames(k + FillTo + 1, s), NULL_FRAME)
         /\ elapsed \in 0..delta_t
         /\ since_render \in elapsed..delta_t
         /\ k = 0 => since_render = elapsed
    /\ signal = "Go"
    /\ poisoned = FALSE
    /\ notified = FALSE
    /\ cpc = "pace"
    /\ is_playing = TRUE
    /\ queue_size = FRAME_BACKLOG
    /\ stream_exhausted = FALSE
    /\ reached_max_capacity = FALSE
    /\ capacity = Usize(FRAME_BACKLOG - FillTo + 1)
    /\ action = "Go"
    /\ notify_issued = FALSE
    /\ exit_code = "running"

\* where the exploration starts: a session of up to MaxFrames frames as
\* constructed, the long session as buffered
Start ==
    \/ Init /\ nframes <= MaxFrames
    \/ Buffered

Spec == Start /\ [][Next]_vars

(* ---------------------------------------------------------------------- *)
(* Fair scheduling: both threads are scheduled by the operating system, so *)
(* a step that stays possible is eventually taken, and time passes. A      *)
(* spurious wake-up of condvar.wait is allowed and never relied on.        *)
(* std::sync::Mutex promises no order among the threads that want it, so   *)
(* mtx.lock() gets no more than this: it is taken when the mutex stays     *)
(* free.                                                                   *)
(* ---------------------------------------------------------------------- *)
Fairness ==
    /\ WF_vars(ProducerProgress)
    /\ WF_vars(ConsumerStep)
    /\ WF_vars(Tick)

FairSpec == Start /\ [][Next]_vars /\ Fairness

(* ---------------------------------------------------------------------- *)
(* From construction to Buffered: a schedule of the long session. Until    *)
(* the consumer has received FillTo frames the producer pulls only while   *)
(* fewer than MaxLead items wait in the channel, and no time passes once   *)
(* MaxEarly frames are rendered; from then on every step is free. Every    *)
(* step of FillNext is a step of Next, so a behaviour of FillSpec is a     *)
(* behaviour of the program from construction on. FillSpec is used to      *)
(* exhibit behaviours, never to show that something holds of all of them.  *)
(* It passes through every state of Buffered, and through no other state   *)
(* at the recv() that brings the deque to FillTo frames (FillIsBuffered).  *)
(* ---------------------------------------------------------------------- *)
Received == Len(rendered) + Len(queue) + (IF cpc \in {"render"} THEN 1 ELSE 0)

Filling == nframes > MaxFrames /\ Received < FillTo

ClockStopped == Filling /\ Len(rendered) >= MaxEarly

ScheduledDecode == ProducerDecode /\ (Filling => Len(chan) < MaxLead)

ScheduledTick == Tick /\ ~ClockStopped

FillNext ==
    \/ Play
    \/ ConsumerEval
    \/ ConsumerLock
    \/ ConsumerUpdate
    \/ ConsumerRecv
    \/ ConsumerPace
    \/ ConsumerRender
    \/ ConsumerStamp
    \/ ScheduledDecode
    \/ ProducerLock
    \/ ProducerCheck
    \/ ProducerWake
    \/ SpuriousWake
    \/ ProducerEncodeSend
    \/ ProducerExit
    \/ ScheduledTick

FillSpec == Init /\ [][FillNext]_vars

\* the long session right after the recv() that brings its deque to FillTo
\* frames
AtFillTo ==
    /\ nframes = LongStream
    /\ cpc = "pace"
    /\ Len(queue) = FillTo
    /\ capacity = Usize(FRAME_BACKLOG - FillTo + 1)

\* an invariant of FillSpec, and of Spec
FillIsBuffered == AtFillTo => Buffered

(* ---------------------------------------------------------------------- *)
(* Properties                                                              *)
(* ---------------------------------------------------------------------- *)
IsPrefix(s, t) == Len(s) <= Len(t) /\ SubSeq(t, 1, Len(s)) = s

\* the text frames among the items of s, in order
TextFrames(s) == SelectSeq(s, LAMBDA x : x # NULL_FRAME)

\* the frames f1..fN of the stream
StreamFrames == [i \in 1..nframes |-> i]

\* a session whose stream ends in ReadExhausted and whose encoder works
CleanSession == ending = "eos" /\ ~EncoderPanics

\* text frames sent and not yet rendered
InFlight == Len(TextFrames(sent)) - Len(rendered)

\* the iteration found remaining <= 10
LowCapacity == UsizeLe(capacity, Usize(LOW_WATERMARK))

C2_OrderPreserved ==
    /\ IsPrefix(rendered, TextFrames(sent))
    /\ cpc = "done" => rendered = TextFrames(sent)

C2_Witness ==
    /\ cpc = "stamp"
    /\ rendered = <<1, 2>>
    /\ Len(queue) >= 2
    /\ chan # <<>>

\* C3: Hysteresis. The shared signal goes from Stop back to Go only in an
\* iteration whose remaining capacity is at least half the queue size.
C3_Hysteresis ==
    [][(signal = "Stop" /\ signal' = "Go")
         => UsizeLe(Usize(queue_size \div 2), capacity)]_vars

\* C4: Capacity invariant. The working deque never holds more than
\* capacity + 1 frames.
C4_CapacityInvariant == Len(queue) <= queue_size + 1

C4_Witness ==
    /\ Len(queue) = FRAME_BACKLOG - LOW_WATERMARK
    /\ signal = "Stop"
    /\ cpc = "pace"

\* C5: Bounded memory. The text frames sent and not yet rendered never
\* number more than capacity + 1.
C5_BoundedInFlight == InFlight <= queue_size + 1

\* C6: Pacing lower bound. Every call of render_frame comes at least delta_t
\* after the one before it (after the start of play for the first).
C6_PacingLowerBound ==
    [][(cpc = "render" /\ cpc' = "stamp") => since_render >= delta_t]_vars

C6_Witness ==
    /\ Len(rendered) >= 2
    /\ delta_t >= 1
    /\ nframes <= MaxFrames

\* C7: Producer failure is observed as channel closure. Once the producer
\* thread has ended by a panic, a consumer that is in recv() is not blocked:
\* recv() returns (an item, or the closed indication).
C7_FailureObserved ==
    (Running /\ ppc = "panicked" /\ cpc = "recv") => ENABLED ConsumerRecv

\* C8: Fatal decode error. A pull that yields an error other than
\* ReadExhausted ends the process with exit code 2; from then on nothing
\* changes (no item is sent, the consumer takes no step); the marker was not
\* sent; and a session whose stream ends in such an error never ends with
\* exit code 0.
C8_FatalDecodeError ==
    /\ [][(ppc = "decode" /\ decoded = nframes /\ ending = "error"
             /\ ppc' # ppc) => exit_code' = "2"]_vars
    /\ [][exit_code = "2" => UNCHANGED vars]_vars
    /\ [](exit_code = "2" => NULL_FRAME \notin {sent[i] : i \in 1..Len(sent)})
    /\ [](ending = "error" => exit_code # "0")

C8_Witness ==
    /\ exit_code = "2"
    /\ cpc = "recv"
    /\ chan = <<>>
    /\ Len(rendered) = 1
    /\ nframes = MaxFrames

\* C9: End-of-stream handshake. The marker occurs in what the producer sent
\* only as the last item; it has been sent once the producer has left its
\* loop; and in every state where the producer is about to pull from an
\* exhausted stream, whatever the signal, its next step sends the marker.
C9_EndOfStreamHandshake ==
    /\ \A i \in 1..Len(sent) : sent[i] = NULL_FRAME => i = Len(sent)
    /\ ppc \in {"exiting", "done"} =>
           /\ Len(sent) = nframes + 1
           /\ sent[Len(sent)] = NULL_FRAME
    /\ (Running /\ ppc = "decode" /\ decoded = nframes /\ ending = "eos") =>
           ENABLED (ProducerDecode /\ sent' = Append(sent, NULL_FRAME))

C9_Witness ==
    /\ Running
    /\ ppc = "decode"
    /\ decoded = nframes
    /\ ending = "eos"
    /\ signal = "Stop"

\* the indexes (1-based) of the positional arguments of a: those after the
\* program name, from i on, that are neither a flag nor the value of a
\* width flag
RECURSIVE Positionals(_, _)
Positionals(a, i) ==
    IF i > Len(a) THEN {}
    ELSE IF IsWidthFlag(a[i]) THEN Positionals(a, i + 2)
    ELSE IF starts_with(a[i], <<"-">>) THEN Positionals(a, i + 1)
    ELSE {i} \cup Positionals(a, i + 1)

\* C10: Config::from_args. An argument list without a positional file path
\* does not yield a configuration, and the file path of a configuration is one
\* of the positional arguments, never the value that follows --width / -w.
C10_FilePathRequired ==
    config.kind = "Ok" =>
        \E i \in Positionals(args, 2) : config.file_name = args[i]

\* C11: Producer gating. A text frame is sent only in a state where the
\* shared signal is Go; from the producer's check of the signal to the end of
\* the send it holds the mutex, so the signal stays Go in between.
C11_ProducerGating ==
    /\ [][(Len(sent') > Len(sent) /\ sent'[Len(sent')] # NULL_FRAME)
             => signal = "Go"]_vars
    /\ [](ppc = "encode" => (signal = "Go" /\ lock = "producer"))
    /\ [][(ppc = "check" /\ ppc' = "encode") => signal = "Go"]_vars

C11_Witness ==
    /\ ppc = "encode"
    /\ cpc = "lock"
    /\ action = "Stop"
    /\ signal = "Go"

\* C12: Consumer signal update rule. The update step writes the desired
\* action into the shared signal and calls notify_one exactly when the action
\* is Stop or the signal is Stop; otherwise it changes neither.
C12_SignalUpdateRule ==
    [][(cpc = "update" /\ cpc' = "recv") =>
         IF action = "Stop" \/ signal = "Stop"
         THEN /\ signal' = action
              /\ notify_issued'
              /\ ppc = "wait" => notified'
         ELSE /\ signal' = signal
              /\ ~notify_issued'
              /\ notified' = notified]_vars

C12_Witness ==
    /\ cpc = "recv"
    /\ notify_issued
    /\ signal = "Go"
    /\ ppc = "wait"
    /\ notified

\* C13: Low-watermark rule. An iteration that found remaining <= 10 desires
\* Stop, leaves the signal at Stop after its update and receives nothing; an
\* iteration that found remaining > 10 with the stream not exhausted takes
\* exactly one item from the channel, and waits for it while there is none.
C13_LowWatermarkRule ==
    /\ []((cpc \in {"lock", "update", "recv", "pace"} /\ LowCapacity)
            => action = "Stop")
    /\ []((cpc \in {"recv", "pace"} /\ LowCapacity) => signal = "Stop")
    /\ [][(cpc = "recv" /\ cpc' = "pace" /\ LowCapacity)
            => UNCHANGED <<chan, queue, stream_exhausted>>]_vars
    /\ [][(cpc = "recv" /\ cpc' = "pace" /\ ~LowCapacity
             /\ ~stream_exhausted)
            => (chan # <<>> /\ chan' = Tail(chan))]_vars
    /\ []((Running /\ cpc = "recv" /\ ~LowCapacity /\ ~stream_exhausted
             /\ chan = <<>>) => ~ENABLED ConsumerRecv)

C13_Witness ==
    /\ cpc = "pace"
    /\ LowCapacity
    /\ signal = "Stop"
    /\ chan # <<>>
    /\ ~stream_exhausted

\* C14: No receive after exhaustion. stream_exhausted, once true, stays true,
\* and from then on the consumer's receive step takes nothing from the
\* channel and never has to wait.
C14_NoReceiveAfterExhaustion ==
    /\ [][stream_exhausted => stream_exhausted']_vars
    /\ [][(stream_exhausted /\ cpc = "recv" /\ cpc' = "pace")
            => UNCHANGED <<chan, queue>>]_vars
    /\ []((Running /\ stream_exhausted /\ cpc = "recv")
            => ENABLED ConsumerRecv)

C14_Witness ==
    /\ stream_exhausted
    /\ cpc = "recv"
    /\ Len(queue) >= 2
    /\ Len(rendered) >= 1

\* C15: Consumer suspension points. While the process runs, every consumer
\* step other than recv() is enabled, whatever the producer is doing.
C15_OnlyRecvBlocks == (Running /\ cpc # "recv") => ENABLED ConsumerStep

\* C16, as claimed: the loop is left only with stream_exhausted true, the
\* deque empty and no text frame in the channel, and the producer thread has
\* terminated by then.
C16_TerminalConditionClaimed ==
    cpc = "done" =>
        /\ stream_exhausted
        /\ queue = <<>>
        /\ TextFrames(chan) = <<>>
        /\ ppc = "done"

\* C16, amended: the loop is left only with stream_exhausted true, the deque
\* empty, the channel empty and every frame rendered; by then the producer
\* has sent the marker and left its loop, and its thread may not yet have
\* returned.
C16_TerminalCondition ==
    cpc = "done" =>
        /\ stream_exhausted
        /\ queue = <<>>
        /\ chan = <<>>
        /\ Len(rendered) = nframes
        /\ ppc \in {"exiting", "done"}

C16_Witness ==
    /\ cpc = "done"
    /\ ppc = "exiting"
    /\ nframes = MaxFrames

\* C17: Decode gating. The producer pulls a frame from the source only
\* while the shared signal is Go.
C17_DecodeGating == [][decoded' # decoded => signal = "Go"]_vars

\* C18: Deadlock freedom of the stop/go protocol. The producer never waits
\* under Stop while the consumer waits in recv() on an empty channel; the
\* signal is Go whenever the consumer is in recv(); and a producer that waits
\* while the signal is Go has a notification pending and, under fair
\* scheduling, leaves the wait.
C18_NoStopGoDeadlock ==
    /\ [](~(/\ ppc = "wait"
            /\ signal = "Stop"
            /\ cpc = "recv"
            /\ WillReceive(stream_exhausted, action)
            /\ chan = <<>>))
    /\ []((cpc = "recv" /\ WillReceive(stream_exhausted, action))
            => signal = "Go")
    /\ []((ppc = "wait" /\ signal = "Go") => notified)
    /\ ((ppc = "wait" /\ signal = "Go") ~> ppc # "wait")

C18_Witness ==
    /\ ppc = "wait"
    /\ signal = "Go"
    /\ notified
    /\ cpc = "recv"
    /\ chan = <<>>

\* C19: Signal tracks the decision. From the update step to the end of the
\* iteration the shared signal equals the action computed in it, which is
\* Stop exactly when remaining <= 10; and only the consumer's update step
\* changes the signal.
C19_SignalTracksDecision ==
    /\ [](cpc \in {"recv", "pace", "render", "stamp"} => signal = action)
    /\ [](cpc \in {"lock", "update", "recv", "pace"} =>
            (action = "Stop" <=> LowCapacity))
    /\ [][signal' # signal => (cpc = "update" /\ cpc' = "recv")]_vars

C19_Witness ==
    /\ cpc = "recv"
    /\ LowCapacity
    /\ action = "Stop"
    /\ signal = "Stop"
    /\ notify_issued
    /\ ppc = "wait"

\* C20: Working-queue bound. The deque never holds more than capacity - 10
\* frames, so the subtraction never underflows, the deque length never
\* equals the capacity, and reached_max_capacity is never true.
C20_WorkingQueueBound ==
    /\ Len(queue) <= queue_size - LOW_WATERMARK
    /\ queue_size - Len(queue) >= 0
    /\ UsizeLe(capacity, Usize(queue_size))
    /\ Len(queue) # queue_size
    /\ ~reached_max_capacity

C20_Witness ==
    /\ Len(queue) = queue_size - LOW_WATERMARK
    /\ Len(rendered) >= 1
    /\ cpc = "eval"
    /\ ~reached_max_capacity

====
